---------------------------- MODULE Spec2Model ----------------------------
(***************************************************************************)
(* Model of brettschneider/python-function-composition: the three variants *)
(* of the /api/people/{area} endpoint (step_1.py, step_2.py, step_3.py)    *)
(* and the `composable` pipe decorator of step_3.py.                       *)
(*                                                                         *)
(* Python values are tagged records [t |-> type, v |-> payload].  A Python *)
(* str is a sequence of tokens (the characters or character groups the     *)
(* code can tell apart); a file is one str, its lines separated by the     *)
(* token "\n".                                                             *)
(***************************************************************************)
EXTENDS Integers, Sequences, FiniteSets, TLC

VARIABLES
    fs,        \* the data_files directory: path value -> file content (tokens)
    flines,    \* the segments the file on disk was written from (its text is Join(flines))
    heap,      \* composable objects, by identity: heap[id].func is the object's func attribute
    area,      \* the {area} path parameter of the request being served
    variant,   \* which step_N module is serving the request (1, 2 or 3)
    pc,        \* the next statement of get_people to run
    val,       \* the value flowing through get_people
    outcome,   \* variant -> what get_people returned or raised
    chain,     \* the stage objects of the expression under evaluation
    input,     \* the input piped or passed into them
    pw,        \* progress of the pairwise chain x | f | g | h
    forms      \* results of the other ways of writing the chain

vars == <<fs, flines, heap, area, variant, pc, val, outcome, chain, input, pw, forms>>

-----------------------------------------------------------------------------
(* Bounds of the model.                                                    *)

\* Most segments (lines, blank or not) of a data file.
MaxLines == 3

\* Most elements of a container piped into a chain.
MaxElems == 2

\* Most composable objects created with | on top of the decorated stages.
MaxCompose == 2

-----------------------------------------------------------------------------
(* Python values.                                                          *)

PyStr(s) == [t |-> "str", v |-> s]
PyInt(n) == [t |-> "int", v |-> n]
PyNone == [t |-> "NoneType", v |-> "None"]
PyList(s) == [t |-> "list", v |-> s]
PyTuple(s) == [t |-> "tuple", v |-> s]
PyDict(f) == [t |-> "dict", v |-> f]
PyPath(segs) == [t |-> "Path", v |-> segs]
PyFunc(name) == [t |-> "function", v |-> name]
PyComposable(id) == [t |-> "composable", v |-> id]
PyContact(n, j) == [t |-> "Contact", v |-> [name |-> n, job |-> j]]

\* A raised exception: its class, the value it was raised about, and (for a
\* pydantic ValidationError) the fields it names.
Raise(kind, item, fields) ==
    [t |-> "exc", v |-> [kind |-> kind, item |-> item, fields |-> fields]]

IsExc(x) == x.t = "exc"

EmptyDict == [k \in {} |-> PyNone]

Min(S) == CHOOSE m \in S : \A n \in S : m <= n

\* A list comprehension [F(e) for e in s], given rs[i] = F(s[i]): elements are
\* evaluated in order and the first exception leaves the comprehension.
ListOrRaise(rs) ==
    LET bad == {i \in 1..Len(rs) : IsExc(rs[i])}
    IN  IF bad # {} THEN rs[Min(bad)] ELSE PyList(rs)

-----------------------------------------------------------------------------
(* Text: tokens, str.split("\n"), str.strip(), json.loads.                 *)

Whitespace == {" ", "\t"}

\* JSON string literals the files use, with the str each denotes.
StrLit ==
    ("\"name\"" :> "name") @@ ("\"job\"" :> "job") @@ ("\"age\"" :> "age") @@
    ("\"Ann\"" :> "Ann") @@ ("\"Cook\"" :> "Cook") @@
    ("\"Bo\"" :> "Bo") @@ ("\"Pilot\"" :> "Pilot")

\* JSON number literals the files use, with the int each denotes.
NumLit == ("7" :> 7) @@ ("41" :> 41)

\* buf.split("\n"): the segments between newline tokens; n segments for n-1
\* newlines, so "" gives [""] and "a\n" gives ["a", ""].
RECURSIVE SplitFrom(_, _, _)
SplitFrom(buf, i, cur) ==
    IF i > Len(buf) THEN <<cur>>
    ELSE IF buf[i] = "\n" THEN <<cur>> \o SplitFrom(buf, i + 1, <<>>)
    ELSE SplitFrom(buf, i + 1, Append(cur, buf[i]))

Split(buf) == SplitFrom(buf, 1, <<>>)

\* l.strip(): leading and trailing whitespace removed.
RECURSIVE LStrip(_)
LStrip(l) ==
    IF l # <<>> /\ Head(l) \in Whitespace THEN LStrip(Tail(l)) ELSE l

RECURSIVE RStrip(_)
RStrip(l) ==
    IF l # <<>> /\ l[Len(l)] \in Whitespace
    THEN RStrip(SubSeq(l, 1, Len(l) - 1)) ELSE l

Strip(l) == RStrip(LStrip(l))

\* bool(s) of a str: the empty str is falsy.
Truthy(l) == l # <<>>

ParseFail == [ok |-> FALSE, val |-> PyNone, nxt |-> 0]
ParseOk(v, n) == [ok |-> TRUE, val |-> v, nxt |-> n]

\* The JSON decoder on the significant tokens of a document: one value starting
\* at token i, and the index of the token after it.
RECURSIVE ParseValue(_, _)
RECURSIVE ParseMembers(_, _, _)
RECURSIVE ParseElements(_, _, _)

ParseValue(toks, i) ==
    IF i > Len(toks) THEN ParseFail
    ELSE LET tk == toks[i] IN
         IF tk \in DOMAIN StrLit THEN ParseOk(PyStr(<<StrLit[tk]>>), i + 1)
         ELSE IF tk \in DOMAIN NumLit THEN ParseOk(PyInt(NumLit[tk]), i + 1)
         ELSE IF tk = "null" THEN ParseOk(PyNone, i + 1)
         ELSE IF tk = "{" THEN
             IF i + 1 <= Len(toks) /\ toks[i + 1] = "}"
             THEN ParseOk(PyDict(EmptyDict), i + 2)
             ELSE ParseMembers(toks, i + 1, EmptyDict)
         ELSE IF tk = "[" THEN
             IF i + 1 <= Len(toks) /\ toks[i + 1] = "]"
             THEN ParseOk(PyList(<<>>), i + 2)
             ELSE ParseElements(toks, i + 1, <<>>)
         ELSE ParseFail

\* "key": value pairs up to the closing brace; a repeated key keeps its last value.
ParseMembers(toks, i, acc) ==
    IF i + 1 > Len(toks) \/ toks[i] \notin DOMAIN StrLit \/ toks[i + 1] # ":"
    THEN ParseFail
    ELSE LET key == StrLit[toks[i]]
             r == ParseValue(toks, i + 2)
             acc2 == [k \in DOMAIN acc \cup {key} |->
                        IF k = key THEN r.val ELSE acc[k]]
         IN  IF ~r.ok \/ r.nxt > Len(toks) THEN ParseFail
             ELSE IF toks[r.nxt] = "," THEN ParseMembers(toks, r.nxt + 1, acc2)
             ELSE IF toks[r.nxt] = "}" THEN ParseOk(PyDict(acc2), r.nxt + 1)
             ELSE ParseFail

ParseElements(toks, i, acc) ==
    LET r == ParseValue(toks, i)
    IN  IF ~r.ok \/ r.nxt > Len(toks) THEN ParseFail
        ELSE IF toks[r.nxt] = "," THEN ParseElements(toks, r.nxt + 1, Append(acc, r.val))
        ELSE IF toks[r.nxt] = "]" THEN ParseOk(PyList(Append(acc, r.val)), r.nxt + 1)
        ELSE ParseFail

NotWhitespace(tk) == tk \notin Whitespace

\* The decoder's verdict on a document of n significant tokens.
Decoded(line, n, r) ==
    IF r.ok /\ r.nxt = n + 1 THEN r.val ELSE Raise("JSONDecodeError", line, {})

\* json.loads(line): whitespace between tokens is insignificant; the document
\* must be exactly one value, else json.JSONDecodeError.
json_loads(line) ==
    Decoded(line, Len(SelectSeq(line.v, NotWhitespace)),
            ParseValue(SelectSeq(line.v, NotWhitespace), 1))

-----------------------------------------------------------------------------
(* The Contact model and the file system.                                  *)

ContactFields == {"name", "job"}

\* Mutant: a model that coerces numbers to str instead of rejecting them.
ContactLax(rec) ==
    IF rec.t # "dict" THEN Raise("TypeError", rec, {})
    ELSE LET bad == {f \in ContactFields :
                        f \notin DOMAIN rec.v \/ rec.v[f].t \notin {"str", "int"}}
         IN  IF bad # {} THEN Raise("ValidationError", rec, bad)
             ELSE PyContact(rec.v["name"], rec.v["job"])

\* Contact(**rec): ** needs a mapping (TypeError otherwise); the model needs
\* both fields, each a str (pydantic ValidationError naming the fields
\* otherwise); other keys are ignored.
Contact(rec) ==
    IF rec.t # "dict" THEN Raise("TypeError", rec, {})
    ELSE LET bad == {f \in ContactFields :
                        f \notin DOMAIN rec.v \/ rec.v[f].t # "str"}
         IN  IF bad # {} THEN Raise("ValidationError", rec, bad)
             ELSE PyContact(rec.v["name"], rec.v["job"])

\* Path(__file__).parents[0] / '..' / 'data_files'
DataDir == <<(<<"src">>), (<<"..">>), (<<"data_files">>)>>

\* open(path).read(): the content of the file, FileNotFoundError if there is none.
OpenRead(path) ==
    IF path \in DOMAIN fs THEN PyStr(fs[path])
    ELSE Raise("FileNotFoundError", path, {})

\* The test `if l.strip()` of the line filter.
NonBlank(l) == Truthy(Strip(l))

\* Mutant: the filter tests l, not l.strip().
SplitLinesNoStrip(buf) ==
    LET kept == SelectSeq(Split(buf.v), Truthy)
    IN  PyList([i \in 1..Len(kept) |-> PyStr(kept[i])])

\* [l for l in buf.split("\n") if l.strip()]
SplitLines(buf) ==
    LET kept == SelectSeq(Split(buf.v), NonBlank)
    IN  PyList([i \in 1..Len(kept) |-> PyStr(kept[i])])

-----------------------------------------------------------------------------
(* step_1.py: the statements of get_people.                                *)

s1_full_filename(a) == PyPath(Append(DataDir, a.v \o <<".txt">>))

s1_lines(full_filename) ==
    LET buf == OpenRead(full_filename)
    IN  IF IsExc(buf) THEN buf ELSE SplitLines(buf)

\* Mutant: one loop that parses and validates each line before the next.
S1JsonRecsFused(lines) ==
    ListOrRaise([i \in 1..Len(lines.v) |->
        IF IsExc(json_loads(lines.v[i])) THEN json_loads(lines.v[i])
        ELSE IF IsExc(Contact(json_loads(lines.v[i]))) THEN Contact(json_loads(lines.v[i]))
        ELSE json_loads(lines.v[i])])

s1_json_recs(lines) ==
    ListOrRaise([i \in 1..Len(lines.v) |-> json_loads(lines.v[i])])

s1_contacts(json_recs) ==
    ListOrRaise([i \in 1..Len(json_recs.v) |-> Contact(json_recs.v[i])])

-----------------------------------------------------------------------------
(* step_2.py: the four stage functions.                                    *)

create_filepath(a) == PyPath(Append(DataDir, a.v \o <<".txt">>))

\* Mutant: every segment is kept, blank or not.
ReadLinesUnfiltered(file_path) ==
    LET buf == OpenRead(file_path)
    IN  IF IsExc(buf) THEN buf
        ELSE PyList([i \in 1..Len(Split(buf.v)) |-> PyStr(Split(buf.v)[i])])

read_lines(file_path) ==
    LET buf == OpenRead(file_path)
    IN  IF IsExc(buf) THEN buf ELSE SplitLines(buf)

IsValue(x) == ~IsExc(x)

\* Mutant: a line that does not decode is skipped.
ParseDictsSkipBad(lines) ==
    PyList(SelectSeq([i \in 1..Len(lines.v) |-> json_loads(lines.v[i])], IsValue))

parse_dicts(lines) ==
    ListOrRaise([i \in 1..Len(lines.v) |-> json_loads(lines.v[i])])

convert_to_contacts(dicts) ==
    ListOrRaise([i \in 1..Len(dicts.v) |-> Contact(dicts.v[i])])

-----------------------------------------------------------------------------
(* step_3.py: the functions the four composable stages wrap.               *)

s3_create_filepath(a) == PyPath(Append(DataDir, a.v \o <<".txt">>))

s3_read_lines(file_path) ==
    LET buf == OpenRead(file_path)
    IN  IF IsExc(buf) THEN buf ELSE SplitLines(buf)

s3_parse_dicts(lines) ==
    ListOrRaise([i \in 1..Len(lines.v) |-> json_loads(lines.v[i])])

s3_convert_to_contacts(dicts) ==
    ListOrRaise([i \in 1..Len(dicts.v) |-> Contact(dicts.v[i])])

-----------------------------------------------------------------------------
(* step_3.py: class composable.                                            *)

\* What a func attribute can hold: a def function, or one of the two lambdas
\* __or__ builds, which close over self and other.
DefF(name) == [k |-> "def", name |-> name, self |-> 0, other |-> PyNone]
ThenF(id, other) == [k |-> "then", name |-> "<lambda>", self |-> id, other |-> other]
ConstF(id, other) == [k |-> "const", name |-> "<lambda>", self |-> id, other |-> other]

\* composable(func): __init__ stores func.
NewComposable(func) == [func |-> func]

\* The outcome of a call: the value returned or the exception raised, and the
\* def functions that were entered, in order, each with its arguments.
Ret(res, log) == [res |-> res, log |-> log]

\* callable(x)
Callable(x) == x.t \in {"function", "composable"}

\* Functions handed to the decorator or placed in containers: unary stages
\* and one zero-argument function.
ThunkDefs == {"seven"}

DefArity(name) == IF name \in ThunkDefs THEN 0 ELSE 1

\* The bodies of the def functions.
DefBody(name, args) ==
    CASE name = "create_filepath" -> s3_create_filepath(args[1])
      [] name = "read_lines" -> s3_read_lines(args[1])
      [] name = "parse_dicts" -> s3_parse_dicts(args[1])
      [] name = "convert_to_contacts" -> s3_convert_to_contacts(args[1])
      [] name = "inc" ->
            IF args[1].t = "int" THEN PyInt(args[1].v + 1)
            ELSE Raise("TypeError", PyStr(<<args[1].t>>), {})
      [] name = "as_tuple" -> PyTuple(<<args[1], args[1]>>)
      [] name = "lazy" -> PyList(<<PyFunc("seven"), args[1]>>)
      [] name = "boom" -> Raise("ValueError", args[1], {})
      [] name = "seven" -> PyInt(7)

\* Calling a def function: a wrong number of positional arguments is a
\* TypeError raised before the body is entered.
CallDef(name, args) ==
    IF Len(args) # DefArity(name)
    THEN Ret(Raise("TypeError", PyFunc(name), {}), <<>>)
    ELSE Ret(DefBody(name, args), <<[fn |-> name, args |-> args]>>)

\* Two calls in sequence: the value of the second, the log of both.
JoinRet(a, b) == Ret(b.res, a.log \o b.log)

RECURSIVE CallFunc(_, _, _)
RECURSIVE CallValue(_, _, _)

\* other(...): a composable is called through __call__, which passes its
\* arguments to self.func.
CallValue(h, f, args) ==
    IF f.t = "composable" THEN CallFunc(h, h[f.v].func, args)
    ELSE IF f.t = "function" THEN CallDef(f.v, args)
    ELSE Ret(Raise("TypeError", f, {}), <<>>)

\* Mutant: what self.func raised is handed to other as if it were a value.
ThenOtherSwallow(h, other, inner) ==
    JoinRet(inner, CallValue(h, other, <<inner.res>>))

\* other(inner) of lambda value: other(self.func(value)), once self.func(value)
\* has returned or raised.
ThenOther(h, other, inner) ==
    IF IsExc(inner.res) THEN inner
    ELSE JoinRet(inner, CallValue(h, other, <<inner.res>>))

\* Calling what a func attribute holds.  The lambdas take exactly one
\* argument and read self.func when they are called.
CallFunc(h, fn, args) ==
    IF fn.k = "def" THEN CallDef(fn.name, args)
    ELSE IF Len(args) # 1 THEN Ret(Raise("TypeError", PyFunc(fn.name), {}), <<>>)
    ELSE IF fn.k = "then"
    THEN ThenOther(h, fn.other, CallFunc(h, h[fn.self].func, args))
    ELSE CallFunc(h, h[fn.self].func, <<fn.other>>)

\* composable.__call__(self, *args)
Call(h, id, args) == CallFunc(h, h[id].func, args)

\* Mutant: elements are never called.
ForceOneNever(h, e) == Ret(e, <<>>)

\* i() if callable(i) else i
ForceOne(h, e) == IF Callable(e) THEN CallValue(h, e, <<>>) ELSE Ret(e, <<>>)

RECURSIVE ConcatLogs(_, _)
ConcatLogs(rs, n) == IF n = 0 THEN <<>> ELSE ConcatLogs(rs, n - 1) \o rs[n].log

\* [i() if callable(i) else i for i in args], given rs[i], the outcome of
\* forcing element i: a list, or the first exception.
ForcedSeq(rs) ==
    LET bad == {i \in 1..Len(rs) : IsExc(rs[i].res)}
    IN  IF bad # {} THEN Ret(rs[Min(bad)].res, ConcatLogs(rs, Min(bad)))
        ELSE Ret(PyList([i \in 1..Len(rs) |-> rs[i].res]), ConcatLogs(rs, Len(rs)))

\* The list branch of __ror__: a list, whatever args was.
ForceSeq(h, s) == ForcedSeq([i \in 1..Len(s) |-> ForceOne(h, s[i])])

\* The keys of the dict inputs, in their insertion order.
DictKeys == <<"a", "b", "c">>

KeysInOrder(d) ==
    LET InD(k) == k \in DOMAIN d
    IN  SelectSeq(DictKeys, InD)

\* The dict of the forced values vs[i] of keys ks[i].
AsDictOf(ks, r) ==
    IF IsExc(r.res) THEN r
    ELSE Ret(PyDict([k \in {ks[i] : i \in 1..Len(ks)} |->
                        r.res.v[CHOOSE i \in 1..Len(ks) : ks[i] = k]]), r.log)

ForceItems(h, d, ks) ==
    AsDictOf(ks, ForcedSeq([i \in 1..Len(ks) |-> ForceOne(h, d[ks[i]])]))

\* {k: v() if callable(v) else v for k, v in args.items()}
ForceDict(h, d) == ForceItems(h, d, KeysInOrder(d))

\* The two isinstance branches of __ror__.
Force(h, x) ==
    IF x.t \in {"list", "tuple"} THEN ForceSeq(h, x.v)
    ELSE IF x.t = "dict" THEN ForceDict(h, x.v)
    ELSE Ret(x, <<>>)

\* return self.func(args), once args has been forced.
RorCall(h, id, forced) ==
    IF IsExc(forced.res) THEN forced
    ELSE JoinRet(forced, CallFunc(h, h[id].func, <<forced.res>>))

\* composable.__ror__(self, other): other | self
Ror(h, id, other) == RorCall(h, id, Force(h, other))

\* Mutant: f = self.func; self.func = lambda value: other(f(value)); return self
OrInPlace(h, id, other) ==
    [heap |-> [Append(h, NewComposable(h[id].func)) EXCEPT
                 ![id] = NewComposable(IF Callable(other) THEN ThenF(Len(h) + 1, other)
                                       ELSE ConstF(Len(h) + 1, other))],
     res |-> PyComposable(id), log |-> <<>>]

\* composable.__or__(self, other): self | other.  A new composable is built
\* around one of the two lambdas; self is left as it was.
Or(h, id, other) ==
    [heap |-> Append(h, NewComposable(IF Callable(other) THEN ThenF(id, other)
                                      ELSE ConstF(id, other))),
     res |-> PyComposable(Len(h) + 1), log |-> <<>>]

\* The outcome r of an operation that leaves the heap h as it is.
Pure(h, r) == [heap |-> h, res |-> r.res, log |-> r.log]

\* Python's left | right when one operand is a composable: the left operand's
\* __or__ if it is a composable, else the right operand's __ror__ (str, Path,
\* list, tuple, dict and int define no | with a composable).
BinOr(h, left, right) ==
    IF left.t = "composable" THEN Or(h, left.v, right)
    ELSE IF right.t = "composable" THEN Pure(h, Ror(h, right.v, left))
    ELSE Pure(h, Ret(Raise("TypeError", left, {}), <<>>))

-----------------------------------------------------------------------------
(* The data files a request can meet.                                      *)

LAnn == <<"{", "\"name\"", ":", "\"Ann\"", ",", "\"job\"", ":", "\"Cook\"", "}">>
\* Padded with whitespace, keys in the other order, one extra key.
LBo == <<" ", "{", "\"job\"", ":", " ", "\"Pilot\"", ",", "\"name\"", ":",
         "\"Bo\"", ",", "\"age\"", ":", "41", "}", "\t">>
LEmpty == <<>>
LSpaces == <<" ", "\t">>
\* Not JSON: an object that is never closed; a value followed by more text.
LUnclosed == <<"{", "\"name\"", ":", "\"Ann\"">>
LExtra == <<"\"Bo\"", "}">>
\* JSON objects that are no Contact: job is missing; name is a number.
LNoJob == <<"{", "\"name\"", ":", "\"Ann\"", "}">>
LNumName == <<"{", "\"name\"", ":", "7", ",", "\"job\"", ":", "\"Cook\"", "}">>
\* JSON, but no object.
LNumber == <<"7">>

BlankLines == {LEmpty, LSpaces}
GoodLines == {LAnn, LBo}
BadJsonLines == {LUnclosed, LExtra}
BadSchemaLines == {LNoJob, LNumName}
NonObjectLines == {LNumber}
Catalogue ==
    BlankLines \cup GoodLines \cup BadJsonLines \cup BadSchemaLines \cup NonObjectLines

\* The text of a file written as these segments, one newline between two.
RECURSIVE Join(_)
Join(ls) ==
    IF Len(ls) = 0 THEN <<>>
    ELSE IF Len(ls) = 1 THEN ls[1]
    ELSE ls[1] \o <<"\n">> \o Join(Tail(ls))

Files == UNION {[1..n -> Catalogue] : n \in 1..MaxLines}

\* Areas a request can name; only the first has a data file.
Areas == {"sales", "ghost"}
SalesPath == PyPath(Append(DataDir, <<"sales", ".txt">>))

Pending == [res |-> PyNone, at |-> "pending"]

\* The module-level objects of step_3.py: one composable per decorated stage.
Step3Module ==
    <<NewComposable(DefF("create_filepath")), NewComposable(DefF("read_lines")),
      NewComposable(DefF("parse_dicts")), NewComposable(DefF("convert_to_contacts"))>>

\* The stage each statement of get_people runs, in order.
Stages == <<"path", "read", "parse", "convert">>
StageNo(p) == CHOOSE i \in 1..Len(Stages) : Stages[i] = p
After(p) == IF StageNo(p) = Len(Stages) THEN "return" ELSE Stages[StageNo(p) + 1]

NoPipe ==
    /\ chain = <<>>
    /\ input = PyNone
    /\ pw = [i |-> 0, res |-> PyNone, log |-> <<>>]
    /\ forms = <<>>

Init ==
    /\ flines \in Files
    /\ fs = (SalesPath :> Join(flines))
    /\ heap = Step3Module
    /\ area = PyNone
    /\ variant = 0
    /\ pc = "idle"
    /\ val = PyNone
    /\ outcome = [k \in 1..3 |-> Pending]
    /\ NoPipe

\* GET /api/people/{a}: the request reaches step_1; the same request is then
\* replayed against step_2 and step_3.
Request(a) ==
    /\ pc = "idle" \/ (pc = "done" /\ variant = 3)
    /\ area' = PyStr(<<a>>)
    /\ variant' = 1
    /\ pc' = "path"
    /\ val' = PyNone
    /\ outcome' = [k \in 1..3 |-> Pending]
    /\ UNCHANGED <<fs, flines, heap, chain, input, pw, forms>>

Replay ==
    /\ pc = "done" /\ variant \in {1, 2}
    /\ variant' = variant + 1
    /\ pc' = "path"
    /\ val' = PyNone
    /\ UNCHANGED <<fs, flines, heap, area, outcome, chain, input, pw, forms>>

\* One statement of get_people has produced r: an exception leaves get_people,
\* the last statement's value is returned, any other value flows on.
Proceed(r) ==
    /\ IF IsExc(r) \/ After(pc) = "return"
       THEN /\ outcome' = [outcome EXCEPT ![variant] =
                              [res |-> r, at |-> IF IsExc(r) THEN pc ELSE "return"]]
            /\ pc' = "done"
            /\ val' = PyNone
       ELSE /\ val' = r
            /\ pc' = After(pc)
            /\ UNCHANGED outcome
    /\ UNCHANGED <<fs, flines, heap, area, variant, chain, input, pw, forms>>

S1_FullFilename == variant = 1 /\ pc = "path" /\ Proceed(s1_full_filename(area))
S1_Lines == variant = 1 /\ pc = "read" /\ Proceed(s1_lines(val))
S1_JsonRecs == variant = 1 /\ pc = "parse" /\ Proceed(s1_json_recs(val))
S1_Contacts == variant = 1 /\ pc = "convert" /\ Proceed(s1_contacts(val))

\* step_2: convert_to_contacts(parse_dicts(read_lines(create_filepath(area)))),
\* innermost call first.
S2_CreateFilepath == variant = 2 /\ pc = "path" /\ Proceed(create_filepath(area))
S2_ReadLines == variant = 2 /\ pc = "read" /\ Proceed(read_lines(val))
S2_ParseDicts == variant = 2 /\ pc = "parse" /\ Proceed(parse_dicts(val))
S2_ConvertToContacts == variant = 2 /\ pc = "convert" /\ Proceed(convert_to_contacts(val))

\* step_3: area | create_filepath | read_lines | parse_dicts | convert_to_contacts,
\* one | at a time from the left; stage k of the chain is module object k.
S3_Pipe ==
    /\ variant = 3 /\ pc \in {Stages[i] : i \in 1..Len(Stages)}
    /\ Proceed(BinOr(heap, IF pc = "path" THEN area ELSE val,
                     PyComposable(StageNo(pc))).res)

Next ==
    \/ \E a \in Areas : Request(a)
    \/ Replay
    \/ S1_FullFilename \/ S1_Lines \/ S1_JsonRecs \/ S1_Contacts
    \/ S2_CreateFilepath \/ S2_ReadLines \/ S2_ParseDicts \/ S2_ConvertToContacts
    \/ S3_Pipe

Spec == Init /\ [][Next]_vars

-----------------------------------------------------------------------------
(* Properties of the endpoint (checked under Spec).                        *)

\* The request names the area that has a data file.
Served == area = PyStr(<<"sales">>)

\* Variant k has answered the request.
Done(k) == outcome[k].at # "pending"

NotBlankLine(l) == l \notin BlankLines
NonBlankSegs == SelectSeq(flines, NotBlankLine)

Ann == PyContact(PyStr(<<"Ann">>), PyStr(<<"Cook">>))
Bo == PyContact(PyStr(<<"Bo">>), PyStr(<<"Pilot">>))

\* What each line of the catalogue is, written out by hand.
ExpectedContact(l) == IF l = LAnn THEN Ann ELSE Bo
ExpectedRecord(l) ==
    IF l = LNoJob THEN PyDict([k \in {"name"} |-> PyStr(<<"Ann">>)])
    ELSE IF l = LNumName
    THEN PyDict([k \in {"name", "job"} |->
                    IF k = "name" THEN PyInt(7) ELSE PyStr(<<"Cook">>)])
    ELSE PyInt(7)

FirstAt(S) == Min({i \in 1..Len(flines) : flines[i] \in S})

\* C1: the three variants of get_people give the same outcome for the same
\* request and the same file: the same contacts in the same order, or the same
\* failure raised by the same stage.
C1_VariantsAgree ==
    (variant = 3 /\ pc = "done") =>
        (outcome[1] = outcome[2] /\ outcome[2] = outcome[3])

C1_Witness ==
    /\ variant = 3 /\ pc = "done" /\ Served
    /\ outcome[3].at = "return" /\ Len(outcome[3].res.v) = 2
    /\ \E i \in 1..Len(flines) : flines[i] \in BlankLines

\* C2: when every non-blank line of an existing file is a well-formed contact
\* record, get_people returns one Contact per non-blank line, in file order;
\* blank and whitespace-only lines add nothing.
C2_OneContactPerLine ==
    \A k \in 1..3 :
        (/\ Served /\ Done(k)
         /\ \A i \in 1..Len(flines) : flines[i] \in GoodLines \cup BlankLines)
        => /\ outcome[k].at = "return"
           /\ outcome[k].res =
                PyList([i \in 1..Len(NonBlankSegs) |-> ExpectedContact(NonBlankSegs[i])])

C2_Witness ==
    /\ flines = <<LBo, LSpaces, LAnn>>
    /\ Done(3) /\ Served
    /\ outcome[3].res = PyList(<<Bo, Ann>>)

C4_ParserPassesOnlyObjects ==
    (pc = "convert") => \A i \in 1..Len(val.v) : val.v[i].t = "dict"

\* C5: when every non-blank line is a JSON object and one of them lacks name
\* or job, or holds a non-string there, the whole request fails with a
\* validation error, wherever that record stands.
C5_BadRecordFailsRequest ==
    \A k \in 1..3 :
        (/\ Served /\ Done(k)
         /\ \A i \in 1..Len(NonBlankSegs) :
                NonBlankSegs[i] \in GoodLines \cup BadSchemaLines
         /\ \E i \in 1..Len(flines) : flines[i] \in BadSchemaLines)
        => /\ outcome[k].at = "convert"
           /\ IsExc(outcome[k].res)
           /\ outcome[k].res.v.kind = "ValidationError"

C5_Witness ==
    /\ flines = <<LAnn, LBo, LNumName>>
    /\ Done(1) /\ Served
    /\ outcome[1].res.v.kind = "ValidationError"
    /\ outcome[1].res.v.fields = {"name"}

-----------------------------------------------------------------------------
(* Chains of composable stages: a client that decorates the stage          *)
(* functions, pipes an input through three of them one | at a time, and    *)
(* then evaluates the same chain written in the other ways.                *)

\* The decorated stages: object k wraps PipeStages[k].
PipeStages == <<"inc", "as_tuple", "lazy", "boom">>
PipeModule == [k \in 1..Len(PipeStages) |-> NewComposable(DefF(PipeStages[k]))]

\* Elements a container input can hold: a plain value, a zero-argument
\* function, a function that needs an argument.
Elements == {PyInt(1), PyFunc("seven"), PyFunc("inc")}
ElemSeqs == UNION {[1..n -> Elements] : n \in 1..MaxElems}
KeysOf(s) == {DictKeys[i] : i \in 1..Len(s)}
AsDict(s) == [k \in KeysOf(s) |-> s[CHOOSE i \in 1..Len(s) : DictKeys[i] = k]]

Inputs ==
    {PyInt(0)} \cup {PyList(s) : s \in ElemSeqs} \cup {PyTuple(s) : s \in ElemSeqs}
        \cup {PyDict(AsDict(s)) : s \in ElemSeqs}

NoRequest ==
    /\ flines = <<LEmpty>>
    /\ fs = (SalesPath :> <<>>)
    /\ area = PyNone
    /\ variant = 0
    /\ pc = "idle"
    /\ val = PyNone
    /\ outcome = [k \in 1..3 |-> Pending]

InitPipe ==
    /\ NoRequest
    /\ heap = PipeModule
    /\ chain \in [1..3 -> 1..Len(PipeStages)]
    /\ input \in Inputs
    /\ pw = [i |-> 0, res |-> input, log |-> <<>>]
    /\ forms = <<>>

F == PyComposable(chain[1])
G == PyComposable(chain[2])
H == PyComposable(chain[3])

\* The pairwise chain has returned or raised.
PairwiseDone == pw.i = 3 \/ IsExc(pw.res)

\* The chain has produced r with its next |.
Advance(r) == pw' = [i |-> pw.i + 1, res |-> r.res, log |-> pw.log \o r.log]

\* x | f | g | h: the next | of the chain, applied to what the chain has so far.
PipeStep ==
    /\ ~PairwiseDone
    /\ Advance(BinOr(heap, pw.res, PyComposable(chain[pw.i + 1])))
    /\ UNCHANGED <<fs, flines, heap, area, variant, pc, val, outcome, chain, input, forms>>

\* The objects built while an expression is evaluated are dropped with it.
Evaluated(r) ==
    /\ PairwiseDone
    /\ forms' = Append(forms, Ret(r.res, r.log))
    /\ UNCHANGED <<fs, flines, heap, area, variant, pc, val, outcome, chain, input, pw>>

\* (o) | right, left | (o), x | (o) and (o)(x) for a composable o just built.
OrRight(o, right) == BinOr(o.heap, o.res, right)
OrLeft(left, o) == BinOr(o.heap, left, o.res)
CallBuilt(o, x) == Call(o.heap, o.res.v, <<x>>)

\* x | (f | g | h)
PreComposed ==
    /\ Len(forms) = 0
    /\ Evaluated(OrLeft(input, OrRight(BinOr(heap, F, G), H)))

\* x | (f | (g | h))
RightGrouped ==
    /\ Len(forms) = 1
    /\ Evaluated(OrLeft(input, OrLeft(F, BinOr(heap, G, H))))

\* ((f | g) | h)(x)
CallLeft ==
    /\ Len(forms) = 2
    /\ Evaluated(CallBuilt(OrRight(BinOr(heap, F, G), H), input))

\* (f | (g | h))(x)
CallRight ==
    /\ Len(forms) = 3
    /\ Evaluated(CallBuilt(OrLeft(F, BinOr(heap, G, H)), input))

NextPipe == PipeStep \/ PreComposed \/ RightGrouped \/ CallLeft \/ CallRight

SpecPipe == InitPipe /\ [][NextPipe]_vars

-----------------------------------------------------------------------------
(* Properties of chains (checked under SpecPipe).                          *)

IsStageEntry(e) == e.fn \in {PipeStages[k] : k \in 1..Len(PipeStages)}

\* The entries of the stage functions in a log, without those of the
\* functions called while a container was forced.
StageEntries(log) == SelectSeq(log, IsStageEntry)

\* By hand: the zero-argument function of the inputs returns 7.
ForcedByHand(e) == IF e = PyFunc("seven") THEN PyInt(7) ELSE e

IsContainer(x) == x.t \in {"list", "tuple", "dict"}
ElementsOf(x) ==
    IF x.t = "dict" THEN {x.v[k] : k \in DOMAIN x.v}
    ELSE {x.v[i] : i \in 1..Len(x.v)}

\* C6 (as claimed): however the chain of f, g and h is written, it gives the
\* same output or the same failure as x | f | g | h for the same x.
C6_Associative == \A i \in 1..Len(forms) : forms[i].res = pw.res

\* C8 (as claimed): input | pipeline hands the first stage the input itself
\* when it is a scalar, and otherwise the same container with each
\* zero-argument callable replaced by its result and every other element kept.
C8_ForcesZeroArgCallables ==
    pw.i = 1 =>
        /\ Len(StageEntries(pw.log)) = 1
        /\ StageEntries(pw.log)[1].fn = PipeStages[chain[1]]
        /\ StageEntries(pw.log)[1].args =
             <<IF input.t \in {"list", "tuple"}
               THEN [t |-> input.t,
                     v |-> [i \in 1..Len(input.v) |-> ForcedByHand(input.v[i])]]
               ELSE IF input.t = "dict"
               THEN PyDict([k \in DOMAIN input.v |-> ForcedByHand(input.v[k])])
               ELSE input>>

\* C8 (amended): a scalar input reaches the first stage unchanged.  Of a list
\* or a tuple, every callable element is called with no argument and replaced
\* by the result, and the first stage gets the elements as a list; of a dict,
\* every callable value likewise, and the first stage gets a dict.  A callable
\* element that cannot be called without an argument makes the pipe raise that
\* call's TypeError, and the first stage is not entered.
C8_ForcesEveryCallable ==
    pw.i = 1 =>
        IF IsContainer(input) /\ PyFunc("inc") \in ElementsOf(input)
        THEN /\ pw.res = Raise("TypeError", PyFunc("inc"), {})
             /\ StageEntries(pw.log) = <<>>
        ELSE /\ Len(StageEntries(pw.log)) = 1
             /\ StageEntries(pw.log)[1].fn = PipeStages[chain[1]]
             /\ StageEntries(pw.log)[1].args =
                  <<IF input.t \in {"list", "tuple"}
                    THEN PyList([i \in 1..Len(input.v) |-> ForcedByHand(input.v[i])])
                    ELSE IF input.t = "dict"
                    THEN PyDict([k \in DOMAIN input.v |-> ForcedByHand(input.v[k])])
                    ELSE input>>

C8_Witness ==
    /\ pw.i = 1
    /\ input = PyTuple(<<PyFunc("seven"), PyInt(1)>>)
    /\ StageEntries(pw.log)[1].args = <<PyList(<<PyInt(7), PyInt(1)>>)>>

\* By hand: the stages that raise, and what they raise.
StageFails(e) == e.fn = "boom" \/ (e.fn = "inc" /\ e.args[1].t # "int")
StageFailure(e) ==
    IF e.fn = "boom" THEN Raise("ValueError", e.args[1], {})
    ELSE Raise("TypeError", PyStr(<<e.args[1].t>>), {})

AbortsAtFailure(r) ==
    \A k \in 1..Len(r.log) :
        StageFails(r.log[k]) => (k = Len(r.log) /\ r.res = StageFailure(r.log[k]))

\* C9: in a chain, piped one | at a time or composed first, a stage that
\* raises is the last function entered, and what the chain raises is exactly
\* what that stage raised.
C9_FailureAbortsChain ==
    /\ AbortsAtFailure(pw)
    /\ \A i \in 1..Len(forms) : AbortsAtFailure(forms[i])

C9_Witness ==
    /\ chain = <<1, 4, 2>> /\ input = PyInt(0)
    /\ Len(forms) = 4
    /\ pw.res = Raise("ValueError", PyInt(1), {})
    /\ \A i \in 1..4 : forms[i].res = pw.res /\ Len(forms[i].log) = 2

-----------------------------------------------------------------------------
(* Building chains: a client that decorates two stages and goes on         *)
(* composing objects with | and calling them.                              *)

ComposeModule == <<PipeModule[1], PipeModule[2]>>
ComposeStages == Len(ComposeModule)

\* Right operands of |: the composables there are, a plain function, a value.
Others(h) == {PyComposable(i) : i \in 1..Len(h)} \cup {PyFunc("lazy"), PyInt(5)}

\* Arguments of a call.
InvokeArgs == {PyInt(0), PyTuple(<<PyFunc("seven")>>)}

InitCompose ==
    /\ NoRequest
    /\ NoPipe
    /\ heap = ComposeModule

\* heap[p] | other
Compose(p, other) ==
    /\ Len(heap) < ComposeStages + MaxCompose
    /\ heap' = BinOr(heap, PyComposable(p), other).heap
    /\ UNCHANGED <<fs, flines, area, variant, pc, val, outcome, chain, input, pw, forms>>

\* The call of object p has produced r.
Called(p, r) == pw' = [i |-> p, res |-> r.res, log |-> r.log]

\* heap[p](x)
Invoke(p, x) ==
    /\ input' = x
    /\ Called(p, Call(heap, p, <<x>>))
    /\ UNCHANGED <<fs, flines, heap, area, variant, pc, val, outcome, chain, forms>>

NextCompose ==
    \/ \E p \in 1..Len(heap) : \E other \in Others(heap) : Compose(p, other)
    \/ \E p \in 1..Len(heap) : \E x \in InvokeArgs : Invoke(p, x)

SpecCompose == InitCompose /\ [][NextCompose]_vars

\* g(y) for the right operand g of a composition, once the left one gave y.
ThenByHand(y, g) == IF IsExc(y.res) THEN y.res ELSE CallValue(heap, g, <<y.res>>).res

\* C7: p | g gives a new composable that maps x to g(f(x)) and leaves p as it
\* was: whatever has been composed and called since, a decorated stage still
\* holds its function and still maps x to f(x).
C7_ComposeLeavesOperands ==
    /\ \A k \in 1..ComposeStages : heap[k] = NewComposable(DefF(PipeStages[k]))
    /\ pw.i \in 1..ComposeStages
        => Ret(pw.res, pw.log) = CallDef(PipeStages[pw.i], <<input>>)
    /\ (pw.i > ComposeStages /\ heap[pw.i].func.k = "then")
        => pw.res = ThenByHand(Call(heap, heap[pw.i].func.self, <<input>>),
                               heap[pw.i].func.other)

C7_Witness ==
    /\ Len(heap) = 4
    /\ heap[3].func = ThenF(1, PyComposable(2))
    /\ heap[4].func = ThenF(1, PyFunc("lazy"))
    /\ pw.i = 3 /\ input = PyInt(0)
    /\ pw.res = PyTuple(<<PyInt(1), PyInt(1)>>)

=============================================================================
